---- MODULE Spec2Model ----
(***************************************************************************)
(* Model of the chatbot scripts of this repository:                        *)
(*   advanceChatBot.py   ("advance": Hugging Face router, requests.post)   *)
(*   bedrockChatbot.py   ("bedrock": Bedrock invoke_model, one attempt)    *)
(*   revised_bedrock.py  ("revised": Bedrock invoke_model, retry loop)     *)
(* The state is the Streamlit session (messages, current_mode), the query  *)
(* in flight (the retry loop's locals), the request that was dispatched,   *)
(* and the chat log file.                                                  *)
(***************************************************************************)
EXTENDS Integers, Sequences, FiniteSets, TLC

VARIABLES
    variant,        \* which of the three scripts runs
    current_mode,   \* st.session_state.current_mode ("<unset>" before the first run)
    messages,       \* st.session_state.messages / the messages argument of the query
    request,        \* the payload handed to the remote endpoint by the query in flight
    qpc,            \* position of the query: idle, loop (remote call pending), returned, raised
    max_retries,    \* query_bedrock's max_retries argument
    base_backoff,   \* query_bedrock's base_backoff argument, in units of 50 ms
    attempt,        \* query_bedrock's local attempt
    last_exception, \* query_bedrock's local last_exception
    invocations,    \* number of calls of the remote endpoint made by the query
    sleeps,         \* the time.sleep arguments of the query, in order
    outcomes,       \* what the remote endpoint did on each attempt, in order
    result,         \* the dict returned by the query
    user_input,     \* the prompt of the interaction in progress
    logFile,        \* contents of chat_log.json
    logStart,       \* contents of chat_log.json before the first save_response_local call
    calls,          \* the save_response_local calls made so far, in order
    history,        \* build_prompt_from_messages: the truncated history, and the prompt
    writers,        \* concurrent save_response_local calls: position, logs and entry of each
    lookups,        \* the choose_mode calls made so far: what was typed, what was returned
    parsing         \* parse_bedrock_response: the body received, and what the call did

vars == << variant, current_mode, messages, request, qpc, max_retries, base_backoff,
           attempt, last_exception, invocations, sleeps, outcomes, result, user_input,
           logFile, logStart, calls, history, writers, lookups, parsing >>

sessVars == << variant, current_mode, messages, user_input >>

queryVars == << request, qpc, max_retries, base_backoff, attempt, last_exception,
                invocations, sleeps, outcomes, result >>

logVars == << logFile, logStart, calls >>

otherVars == << writers, lookups, parsing >>

(***************************************************************************)
(* Bounds of the model.                                                    *)
(***************************************************************************)
MaxRetriesArg == 3
MaxTurns == 9
MaxLog == 3
MaxSaves == 2
MaxLookups == 2

(***************************************************************************)
(* Program constants.                                                      *)
(***************************************************************************)
MAX_HISTORY_MESSAGES == 8
DefaultMaxRetries == 3
DefaultBaseBackoff == 10
InitMaxTokens == 200
SliderDefault == 200

Variants == {"advance", "bedrock", "revised"}

modes == {"summarizer", "translator", "story generator", "marvel predictor"}

DefaultMode == "marvel predictor"

\* The first key of the modes dict: what a selectbox without index shows first.
FirstMode == "summarizer"

TokenChoices == {100, 200}

(***************************************************************************)
(* Texts.  A text is its characters (text), whether it carries leading or  *)
(* trailing whitespace (pad), whether it still holds the {max_tokens}      *)
(* placeholder (hole), the number substituted for it (tokens, 0 if none),  *)
(* and whether the truncation marker was appended (marker).                *)
(***************************************************************************)
Txt(s) == [text |-> s, pad |-> FALSE, hole |-> FALSE, tokens |-> 0, marker |-> FALSE]

Padded(s) == [text |-> s, pad |-> TRUE, hole |-> FALSE, tokens |-> 0, marker |-> FALSE]

\* modes[name]: the template with its {max_tokens} placeholder.
Template(name) == [text |-> name, pad |-> FALSE, hole |-> TRUE, tokens |-> 0, marker |-> FALSE]

\* str.format(max_tokens=n): substitutes the placeholder when there is one.
Format(c, n) == IF c.hole THEN [c EXCEPT !.hole = FALSE, !.tokens = n] ELSE c

\* str.strip()
Strip(c) == [c EXCEPT !.pad = FALSE]

Turn(r, c) == [role |-> r, content |-> c]

(***************************************************************************)
(* Response bodies of the Bedrock runtime.  A body is described by what    *)
(* the parsers look at: whether it is JSON (json), whether the JSON value  *)
(* is an object (dict), the top-level outputText field (ot), the nested    *)
(* output.message.content[0].text path (nt), the usage field, and whether  *)
(* its texts carry surrounding whitespace (pad).                           *)
(*   ot: "absent", "str" (a string), "nonstr" (null, a number, a list)     *)
(*   nt: "absent", "str", "nonstr" (a number), "malformed" (output is not  *)
(*       an object, content is empty or no list, no text key)              *)
(***************************************************************************)
Body(j, d, o, n, u, p) == [json |-> j, dict |-> d, ot |-> o, nt |-> n, usage |-> u, pad |-> p]

EmptyDict == Body(TRUE, TRUE, "absent", "absent", "absent", FALSE)

BedrockBodies ==
    { Body(FALSE, FALSE, "absent", "absent", "absent", p) : p \in BOOLEAN }
    \cup { Body(TRUE, FALSE, "absent", "absent", "absent", p) : p \in BOOLEAN }
    \cup { Body(TRUE, TRUE, o, n, u, p) :
             o \in {"absent", "str", "nonstr"},
             n \in {"absent", "str", "nonstr", "malformed"},
             u \in {"absent", "present"},
             p \in BOOLEAN }

\* The decoded text of the whole body.
BodyText(b) == IF b.pad THEN Padded("raw") ELSE Txt("raw")

\* parsed["outputText"] when it is a string.
OutputText(b) == IF b.pad THEN Padded("hello") ELSE Txt("hello")

\* str(first["text"]): the string itself, or the digits of a number.
NestedText(b) ==
    IF b.nt = "nonstr" THEN Txt("5")
    ELSE IF b.pad THEN Padded("hi there") ELSE Txt("hi there")

Returned(t, parsed) == [kind |-> "return", text |-> t, parsed |-> parsed, msg |-> ""]

Raised(m) == [kind |-> "raise", text |-> Txt(""), parsed |-> EmptyDict, msg |-> m]

\* revised_bedrock.parse_bedrock_response
parse_bedrock_response(b) ==
    IF ~b.json THEN Returned(Strip(BodyText(b)), EmptyDict)
    ELSE IF b.dict /\ b.ot # "absent"
         THEN IF b.ot = "str"
              THEN Returned(Strip(OutputText(b)), b)
              ELSE Raised("AttributeError: no attribute 'strip'")
    ELSE IF b.dict /\ b.nt \in {"str", "nonstr"}
         THEN Returned(Strip(NestedText(b)), b)
    ELSE Returned(Strip(BodyText(b)), b)

\* parsed_json.get("usage", {}) if isinstance(parsed_json, dict) else {}
UsageOf(parsed) == IF parsed.dict /\ parsed.usage = "present" THEN "usage" ELSE "empty"

(***************************************************************************)
(* Results of a query: Python dicts, told apart by their keys.             *)
(***************************************************************************)
NoResult == [pending |-> TRUE]

Success(t, sec, u) == [response |-> t, time |-> sec, usage |-> u]

Failure(e, sec) == [error |-> e, time |-> sec, usage |-> "empty"]

\* An error text: a fixed prefix, the status code it quotes (0 if none), str(e).
ErrText(p, st, m) == [prefix |-> p, status |-> st, msg |-> m]

NoException == "None"

\* round(time.time() - start_time, 2): a wall-clock measurement, kept as a token.
Elapsed == "elapsed"

\* "time": 0
NoTime == "0"

RECURSIVE Pow2(_)
Pow2(n) == IF n <= 0 THEN 1 ELSE 2 * Pow2(n - 1)

(***************************************************************************)
(* Request payloads.                                                       *)
(***************************************************************************)
NoRequest == [messages |-> << >>, max_tokens |-> 0]

ReqMsg(r, p, c) == [role |-> r, prefix |-> p, content |-> c]

\* A conversion that hands the system turn on under the system role.
ChatMessage_KeepsSystem(msg) == ReqMsg(msg.role, "", msg.content)

\* query_bedrock's loop over messages: a system turn becomes a user message
\* with the "System instruction: " prefix.
ChatMessage(msg) ==
    IF msg.role = "system" THEN ReqMsg("user", "System instruction: ", msg.content)
    ELSE IF msg.role = "user" THEN ReqMsg("user", "", msg.content)
    ELSE ReqMsg("assistant", "", msg.content)

ChatMessages(ms) == [i \in 1..Len(ms) |-> ChatMessage(ms[i])]

BedrockPayload(ms, mt) == [messages |-> ChatMessages(ms), max_tokens |-> mt]

\* advanceChatBot.query: [system_instruction] + messages[1:]
AdvancePayload(ms, mt) ==
    [messages |-> << ReqMsg("system", "", Format(ms[1].content, mt)) >>
                  \o [i \in 1..(Len(ms) - 1) |-> ReqMsg(ms[i + 1].role, "", ms[i + 1].content)],
     max_tokens |-> mt]

(***************************************************************************)
(* What the remote endpoint does on one call: it raises (a transport or    *)
(* service exception with message msg) or it answers with a status code    *)
(* and a body.                                                             *)
(***************************************************************************)
Exc(m) == [kind |-> "raise", msg |-> m, status |-> 0, body |-> EmptyDict]

Resp(st, b) == [kind |-> "body", msg |-> "", status |-> st, body |-> b]

ExcMsgs == {"timeout", "throttled"}

\* Bodies of the Hugging Face router: choices is "absent", "empty" (an empty
\* list), "str" (a short complete text), "cut" (more than ten words, no final
\* punctuation) or "nonstr" (content is null or the path is malformed).
HFBody(j, d, c, u) == [json |-> j, dict |-> d, choices |-> c, usage |-> u]

HFBodies ==
    { HFBody(FALSE, FALSE, "absent", "absent"), HFBody(TRUE, FALSE, "absent", "absent") }
    \cup { HFBody(TRUE, TRUE, c, u) :
             c \in {"absent", "empty", "str", "cut", "nonstr"},
             u \in {"absent", "present"} }

StatusCodes == {200, 500}

\* The bodies the query specifications draw from: every shape, with one
\* representative of the bodies whose decoding raises.
QueryBodies ==
    { b \in BedrockBodies :
        b.pad /\ (b.ot = "nonstr" => (b.nt = "absent" /\ b.usage = "absent")) }

BedrockOutcomes == { Exc(m) : m \in ExcMsgs } \cup { Resp(200, b) : b \in QueryBodies }

HFOutcomes == { Exc(m) : m \in ExcMsgs } \cup { Resp(st, b) : st \in StatusCodes, b \in HFBodies }

\* random.uniform(0, backoff * 0.1), sampled at k twentieths of the backoff
\* for the k of S: 0 is the least jitter, 2 the greatest.
Jitters(backoff, S) == { (backoff * k) \div 20 : k \in S }

JitterSamples == {0, 1, 2}

\* A backoff whose exponent is off by one.
Backoff_OffByOne(base, att) == base * Pow2(att)

\* backoff = base_backoff * (2 ** (attempt - 1))
Backoff(base, att) == base * Pow2(att - 1)

\* while attempt <= max_retries
LoopGuard(att, mr) == att <= mr

\* if attempt > max_retries: break
Exhausted(att, mr) == att > mr

(***************************************************************************)
(* The start of a query: the payload is built, the locals are initialised. *)
(***************************************************************************)
Payload(v, ms, mt) == IF v = "advance" THEN AdvancePayload(ms, mt) ELSE BedrockPayload(ms, mt)

StartQuery(ms, mt, mr, bb) ==
    /\ request' = Payload(variant, ms, mt)
    /\ qpc' = "loop"
    /\ max_retries' = mr
    /\ base_backoff' = bb
    /\ attempt' = 0
    /\ last_exception' = NoException
    /\ invocations' = 0
    /\ sleeps' = << >>
    /\ outcomes' = << >>
    /\ result' = NoResult

\* An error return that reports no exception at all.
ErrorReturn_NoMessage(last) == Failure(ErrText("", 0, NoException), Elapsed)

\* return {"error": str(last_exception), "time": ..., "usage": {}}
ErrorReturn(last) == Failure(ErrText("", 0, last), Elapsed)

\* What one attempt of revised_bedrock.query_bedrock's try block comes to:
\* invoke_model raised, or parse_bedrock_response raised, or the pair it returned.
TryBlock(o) == IF o.kind = "raise" THEN Raised(o.msg) ELSE parse_bedrock_response(o.body)

(***************************************************************************)
(* revised_bedrock.query_bedrock: one iteration of the retry loop.         *)
(***************************************************************************)
Attempt(Outs, S) ==
    /\ variant = "revised"
    /\ qpc = "loop"
    /\ LoopGuard(attempt, max_retries)
    /\ \E o \in Outs :
         LET att == attempt + 1
             t == TryBlock(o)
             backoff == Backoff(base_backoff, att)
         IN /\ attempt' = att
            /\ invocations' = invocations + 1
            /\ outcomes' = Append(outcomes, o)
            /\ IF t.kind = "return"
               THEN /\ result' = Success(t.text, Elapsed, UsageOf(t.parsed))
                    /\ qpc' = "returned"
                    /\ UNCHANGED << last_exception, sleeps >>
               ELSE /\ last_exception' = t.msg
                    /\ IF Exhausted(att, max_retries)
                       THEN /\ result' = ErrorReturn(t.msg)
                            /\ qpc' = "returned"
                            /\ UNCHANGED sleeps
                       ELSE /\ \E jitter \in Jitters(backoff, S) :
                                 sleeps' = Append(sleeps, backoff + jitter)
                            /\ UNCHANGED << result, qpc >>
    /\ UNCHANGED << sessVars, logVars, history, otherVars, request, max_retries,
                    base_backoff >>

\* bedrockChatbot.query_bedrock, from the invoke_model call on.  The reply is
\* response_json["output"]["message"]["content"][0]["text"] as it stands: not
\* stripped, and a number is shown here by its digits.
bedrock_once(o) ==
    IF o.kind = "raise" THEN Failure(ErrText("", 0, o.msg), NoTime)
    ELSE IF ~o.body.json THEN Failure(ErrText("", 0, "JSONDecodeError"), NoTime)
    ELSE IF ~o.body.dict THEN Failure(ErrText("", 0, "TypeError"), NoTime)
    ELSE IF o.body.nt \in {"absent", "malformed"} THEN Failure(ErrText("", 0, "KeyError"), NoTime)
    ELSE Success(NestedText(o.body), Elapsed, UsageOf(o.body))

InvokeOnce(Outs) ==
    /\ variant = "bedrock"
    /\ qpc = "loop"
    /\ \E o \in Outs :
         /\ invocations' = invocations + 1
         /\ outcomes' = Append(outcomes, o)
         /\ result' = bedrock_once(o)
         /\ qpc' = "returned"
    /\ UNCHANGED << sessVars, logVars, history, otherVars, request, max_retries, base_backoff,
                    attempt, last_exception, sleeps >>

\* An exception that leaves the query uncaught.
Uncaught(m) == [raised |-> m]

\* The heuristic on the reply: more than ten words and no final punctuation.
Annotate(c, cut) == IF cut THEN [c EXCEPT !.marker = TRUE] ELSE c

\* advanceChatBot.query, from the requests.post call on.
advance_query(o) ==
    IF o.kind = "raise" THEN Failure(ErrText("Request Failed: ", 0, o.msg), Elapsed)
    ELSE IF ~o.body.json THEN Failure(ErrText("Request Failed: ", 0, "JSONDecodeError"), Elapsed)
    ELSE IF o.status # 200 THEN Failure(ErrText("Error: ", o.status, "response.text"), Elapsed)
    ELSE IF ~o.body.dict THEN Uncaught("AttributeError")
    ELSE IF o.body.choices = "empty" THEN Uncaught("IndexError")
    ELSE IF o.body.choices = "nonstr" THEN Uncaught("AttributeError")
    ELSE IF o.body.choices = "absent"
         THEN Success(Txt(""), Elapsed, IF o.body.usage = "present" THEN "usage" ELSE "empty")
    ELSE Success(Annotate(Txt("reply"), o.body.choices = "cut"), Elapsed,
                 IF o.body.usage = "present" THEN "usage" ELSE "empty")

Post(Outs) ==
    /\ variant = "advance"
    /\ qpc = "loop"
    /\ \E o \in Outs :
         /\ invocations' = invocations + 1
         /\ outcomes' = Append(outcomes, o)
         /\ result' = advance_query(o)
         /\ qpc' = IF "raised" \in DOMAIN advance_query(o) THEN "raised" ELSE "returned"
    /\ UNCHANGED << sessVars, logVars, history, otherVars, request, max_retries, base_backoff,
                    attempt, last_exception, sleeps >>

(***************************************************************************)
(* The log file and the values the other specifications leave untouched.   *)
(***************************************************************************)
LogFile(k, es) == [kind |-> k, entries |-> es]

AbsentLog == LogFile("absent", << >>)

NoHistory == [applied |-> FALSE, input |-> << >>, kept |-> << >>, system |-> Txt(""),
              prompt |-> << >>]

NoInput == Txt("")

\* The sessions that may call save_response_local at the same time.
Writers == {1, 2}

\* A save_response_local call: where it is (pc), its local logs, the entry it
\* was called with, and whether one of its file accesses failed.
WriterState(pc, logs, entry, failed) ==
    [pc |-> pc, logs |-> logs, entry |-> entry, failed |-> failed]

NoEntry == [user |-> Txt(""), assistant |-> Txt(""), response_time_sec |-> NoTime,
            token_usage |-> "empty"]

NoWriters == [w \in Writers |-> WriterState("idle", << >>, NoEntry, FALSE)]

\* The parser call: not made (stage "none"), handed a body ("received"), over ("parsed").
ParseState(stage, body, out) == [stage |-> stage, body |-> body, out |-> out]

NoParse == ParseState("none", EmptyDict, Returned(Txt(""), EmptyDict))

(***************************************************************************)
(* SpecQuery: one call of a query operation, on a two-turn history, with   *)
(* every argument and every behaviour of the remote endpoint.              *)
(***************************************************************************)
QueryInput == << Turn("system", Template(DefaultMode)), Turn("user", Txt("hi")) >>

BaseBackoffChoices == {DefaultBaseBackoff, 2 * DefaultBaseBackoff}

QInit ==
    /\ variant \in Variants
    /\ current_mode = DefaultMode
    /\ messages = QueryInput
    /\ request = NoRequest
    /\ qpc = "idle"
    /\ max_retries = 0
    /\ base_backoff = 0
    /\ attempt = 0
    /\ last_exception = NoException
    /\ invocations = 0
    /\ sleeps = << >>
    /\ outcomes = << >>
    /\ result = NoResult
    /\ user_input = NoInput
    /\ logFile = AbsentLog
    /\ logStart = AbsentLog
    /\ calls = << >>
    /\ history = NoHistory
    /\ writers = NoWriters
    /\ lookups = << >>
    /\ parsing = NoParse

\* A caller calls the query operation of the variant; max_retries is drawn
\* from 1..MaxRetriesArg and base_backoff is positive.
Call ==
    /\ qpc = "idle"
    /\ \E mt \in TokenChoices :
         IF variant = "revised"
         THEN \E mr \in 1..MaxRetriesArg, bb \in BaseBackoffChoices :
                  StartQuery(messages, mt, mr, bb)
         ELSE StartQuery(messages, mt, 0, 0)
    /\ UNCHANGED << sessVars, logVars, history, otherVars >>

QNext ==
    \/ Call
    \/ Attempt(BedrockOutcomes, JitterSamples)
    \/ InvokeOnce(BedrockOutcomes)
    \/ Post(HFOutcomes)

SpecQuery == QInit /\ [][QNext]_vars

Revised == variant = "revised"

AllRaised(k) == \A i \in 1..k : outcomes[i].kind = "raise"

IsSuccessShape(r) == DOMAIN r = {"response", "time", "usage"}

IsErrorShape(r) == DOMAIN r = {"error", "time", "usage"} /\ r.usage = "empty"

\* C1: in revised_bedrock.query_bedrock one call invokes the remote endpoint at
\* most max_retries times, whatever the remote endpoint does.
C1_AtMostMaxRetriesInvocations == Revised => invocations <= max_retries

\* C2: when every attempt of the remote call raised, the call returns the error
\* shape (error, no response, empty usage) whose text is the message of the last
\* attempt's exception, and there is no sleep after the last attempt.
C2_ExhaustedReturnsLastError ==
    (Revised /\ qpc = "returned" /\ AllRaised(Len(outcomes)))
        => /\ "error" \in DOMAIN result
           /\ "response" \notin DOMAIN result
           /\ result.usage = "empty"
           /\ result.error = ErrText("", 0, outcomes[Len(outcomes)].msg)
           /\ Len(sleeps) = Len(outcomes) - 1

C2_Witness ==
    /\ Revised /\ qpc = "returned" /\ Len(outcomes) >= 2 /\ AllRaised(Len(outcomes))
    /\ outcomes[Len(outcomes)].msg # outcomes[1].msg
    /\ "error" \in DOMAIN result

\* C3: when the remote call raises on the first k attempts and succeeds on attempt
\* k+1 <= max_retries, the call returns the success result carrying the text of
\* that attempt, after exactly k sleeps.
C3_SuccessAfterKFailures ==
    Revised =>
        \A k \in 0..(Len(outcomes) - 1) :
            (k + 1 <= max_retries /\ AllRaised(k) /\ outcomes[k + 1].kind = "body")
                => /\ qpc = "returned"
                   /\ Len(outcomes) = k + 1
                   /\ "response" \in DOMAIN result
                   /\ Len(sleeps) = k

\* C4: the sleep after the n-th failed attempt is at least base_backoff * 2^(n-1)
\* and at most that value plus 10% of it.
C4_BackoffDoublesJitterBounded ==
    Revised =>
        \A n \in 1..Len(sleeps) :
            /\ sleeps[n] >= base_backoff * Pow2(n - 1)
            /\ 10 * sleeps[n] <= 11 * base_backoff * Pow2(n - 1)

C4_Witness ==
    /\ Revised /\ Len(sleeps) >= 2
    /\ sleeps[1] = base_backoff
    /\ sleeps[2] > 2 * base_backoff

\* C5: every invocation of a query operation returns, and what it returns has
\* exactly one of the two shapes; no outcome makes it raise.
C5_AlwaysOneOfTwoShapes ==
    /\ qpc # "raised"
    /\ qpc = "returned" => (IsSuccessShape(result) \/ IsErrorShape(result))

(***************************************************************************)
(* build_prompt_from_messages (bedrockChatbot.py, revised_bedrock.py).     *)
(***************************************************************************)
\* messages[-n:]
LastN(ms, n) == SubSeq(ms, Len(ms) - n + 1, Len(ms))

\* history = messages[-MAX_HISTORY_MESSAGES:] if len(messages) > MAX_HISTORY_MESSAGES
\*           else messages[:]
TruncateHistory(ms) ==
    IF Len(ms) > MAX_HISTORY_MESSAGES THEN LastN(ms, MAX_HISTORY_MESSAGES) ELSE ms

PromptPart(label, c) == [label |-> label, content |-> c]

\* The labelled line of one turn of the history.
PromptLine(msg) ==
    IF msg.role = "user" THEN PromptPart("User: ", msg.content)
    ELSE PromptPart("Assistant: ", msg.content)

build_prompt_from_messages(ms, mt) ==
    LET truncated == TruncateHistory(ms)
        hasSystem == truncated # << >> /\ truncated[1].role = "system"
        system    == IF hasSystem THEN Format(truncated[1].content, mt) ELSE Txt("")
        rest      == IF hasSystem THEN Tail(truncated) ELSE truncated
    IN [applied |-> TRUE,
        input   |-> ms,
        kept    |-> truncated,
        system  |-> system,
        prompt  |-> (IF system.text # "" THEN << PromptPart("System: ", system) >> ELSE << >>)
                    \o [i \in 1..Len(rest) |-> PromptLine(rest[i])]
                    \o << PromptPart("Assistant:", Txt("")) >>]

\* The texts of the turns of a history under construction, one per position.
TurnTexts ==
    << "m1", "m2", "m3", "m4", "m5", "m6", "m7", "m8", "m9", "m10", "m11", "m12" >>

PInit ==
    /\ variant \in {"bedrock", "revised"}
    /\ current_mode = DefaultMode
    /\ messages = << >>
    /\ request = NoRequest
    /\ qpc = "idle"
    /\ max_retries = 0
    /\ base_backoff = 0
    /\ attempt = 0
    /\ last_exception = NoException
    /\ invocations = 0
    /\ sleeps = << >>
    /\ outcomes = << >>
    /\ result = NoResult
    /\ user_input = NoInput
    /\ logFile = AbsentLog
    /\ logStart = AbsentLog
    /\ calls = << >>
    /\ history = NoHistory
    /\ writers = NoWriters
    /\ lookups = << >>
    /\ parsing = NoParse

\* The caller's history starts with the session's system turn ...
AddSystemTurn ==
    /\ ~history.applied
    /\ messages = << >>
    /\ \E m \in {DefaultMode, FirstMode} :
         messages' = << Turn("system", Template(m)) >>
    /\ UNCHANGED << variant, current_mode, user_input, queryVars, logVars, history, otherVars >>

\* ... or without one, and grows by user and assistant turns.
AddTurn ==
    /\ ~history.applied
    /\ Len(messages) < MaxTurns
    /\ \E r \in {"user", "assistant"} :
         messages' = Append(messages, Turn(r, Txt(TurnTexts[Len(messages) + 1])))
    /\ UNCHANGED << variant, current_mode, user_input, queryVars, logVars, history, otherVars >>

BuildPrompt ==
    /\ ~history.applied
    /\ \E mt \in TokenChoices :
         history' = build_prompt_from_messages(messages, mt)
    /\ UNCHANGED << sessVars, queryVars, logVars, otherVars >>

PNext == AddSystemTurn \/ AddTurn \/ BuildPrompt

SpecPrompt == PInit /\ [][PNext]_vars

\* C6: when the sequence is longer than the history window and starts with a
\* system turn, the truncation keeps that system turn, and the other turns it
\* keeps are exactly the MAX_HISTORY_MESSAGES most recent ones, in order.
C6_TruncationKeepsSystemTurn ==
    (/\ history.applied
     /\ Len(history.input) > MAX_HISTORY_MESSAGES
     /\ history.input[1].role = "system")
        => /\ history.kept = << history.input[1] >> \o LastN(history.input, MAX_HISTORY_MESSAGES)
           /\ history.system = Format(history.input[1].content, history.system.tokens)

(***************************************************************************)
(* save_response_local.  The log file is absent, or holds text that is no  *)
(* JSON ("corrupt"), or JSON that is no array ("nonarray"), or an array of *)
(* entries.  The wall-clock timestamp of an entry is not modelled.         *)
(* A read of an existing file works or fails with an I/O error (rd); the   *)
(* write works, or open(filename, "w") fails and leaves the file as it     *)
(* was, or json.dump fails after open has truncated the file (wr).         *)
(***************************************************************************)
\* entry = {"user": prompt, "assistant": assistant_response.get("response", ""), ...}
MakeEntry(prompt, res) ==
    [user |-> prompt,
     assistant |-> IF "response" \in DOMAIN res THEN res.response ELSE Txt(""),
     response_time_sec |-> IF "time" \in DOMAIN res THEN res.time ELSE NoTime,
     token_usage |-> IF "usage" \in DOMAIN res THEN res.usage ELSE "empty"]

ReadOutcomes == {"ok", "fail"}

\* os.path.exists(filename): an absent file is not read at all.
ReadOutcomesOf(file) == IF file.kind = "absent" THEN {"ok"} ELSE ReadOutcomes

WriteOutcomes == {"ok", "open_fails", "dump_fails"}

Logs(r, l, es) == [raised |-> r, islist |-> l, entries |-> es]

\* The read of the existing log: what logs is bound to, or that the read raised.
ReadLogs(v, file, rd) ==
    IF file.kind = "absent" THEN Logs(FALSE, TRUE, << >>)
    ELSE IF rd = "fail" \/ file.kind = "corrupt"
         THEN IF v = "advance" THEN Logs(TRUE, TRUE, << >>) ELSE Logs(FALSE, TRUE, << >>)
    ELSE IF file.kind = "nonarray"
         THEN IF v = "revised" THEN Logs(FALSE, TRUE, << >>) ELSE Logs(FALSE, FALSE, << >>)
    ELSE Logs(FALSE, TRUE, file.entries)

\* A log that puts the new entry first.
AppendEntry_Prepend(es, entry) == << entry >> \o es

\* logs.append(entry)
AppendEntry(es, entry) == Append(es, entry)

\* A write that leaves the last element of logs out.
WriteLogs_DropsLast(file, es, wr) ==
    IF wr = "ok" THEN LogFile("array", SubSeq(es, 1, Len(es) - 1))
    ELSE IF wr = "open_fails" THEN file
    ELSE LogFile("corrupt", << >>)

\* The file after json.dump(logs, open(filename, "w")).
WriteLogs(file, es, wr) ==
    IF wr = "ok" THEN LogFile("array", es)
    ELSE IF wr = "open_fails" THEN file
    ELSE LogFile("corrupt", << >>)

Saved(file, r) == [file |-> file, raised |-> r]

\* A save_response_local that lets a failed write propagate in every script.
save_response_local_Propagates(v, file, entry, rd, wr) ==
    LET logs == ReadLogs(v, file, rd)
    IN IF logs.raised \/ ~logs.islist THEN Saved(file, TRUE)
       ELSE Saved(WriteLogs(file, AppendEntry(logs.entries, entry), wr), wr # "ok")

save_response_local(v, file, entry, rd, wr) ==
    LET logs == ReadLogs(v, file, rd)
    IN IF logs.raised \/ ~logs.islist THEN Saved(file, TRUE)
       ELSE Saved(WriteLogs(file, AppendEntry(logs.entries, entry), wr),
                  wr # "ok" /\ v # "revised")

CallRecord(entry, before, rd, wr, r) ==
    [entry |-> entry, before |-> before, rd |-> rd, wr |-> wr, raised |-> r]

\* One call of save_response_local and its trace in calls.
SaveStep(entry, rd, wr) ==
    LET s == save_response_local(variant, logFile, entry, rd, wr)
    IN /\ logFile' = s.file
       /\ calls' = Append(calls, CallRecord(entry, logFile.kind, rd, wr, s.raised))
       /\ UNCHANGED logStart

OldEntry == MakeEntry(Txt("old"), Success(Txt("old reply"), Elapsed, "empty"))

\* What chat_log.json may hold when the program starts.
PreexistingLogs ==
    { AbsentLog, LogFile("corrupt", << >>), LogFile("nonarray", << >>),
      LogFile("array", << >>), LogFile("array", << OldEntry >>) }

LInit ==
    /\ variant \in Variants
    /\ current_mode = DefaultMode
    /\ messages = << >>
    /\ request = NoRequest
    /\ qpc = "idle"
    /\ max_retries = 0
    /\ base_backoff = 0
    /\ attempt = 0
    /\ last_exception = NoException
    /\ invocations = 0
    /\ sleeps = << >>
    /\ outcomes = << >>
    /\ result = NoResult
    /\ user_input = NoInput
    /\ logFile \in PreexistingLogs
    /\ logStart = logFile
    /\ calls = << >>
    /\ history = NoHistory
    /\ writers = NoWriters
    /\ lookups = << >>
    /\ parsing = NoParse

\* A single writer calls save_response_local with the next exchange.
SaveCall ==
    /\ Len(calls) < MaxLog
    /\ \E rd \in ReadOutcomesOf(logFile), wr \in WriteOutcomes, u \in {"usage", "empty"} :
         SaveStep(MakeEntry(Txt(TurnTexts[Len(calls) + 1]), Success(Txt("reply"), Elapsed, u)),
                  rd, wr)
    /\ UNCHANGED << sessVars, queryVars, history, otherVars >>

LNext == SaveCall

SpecLog == LInit /\ [][LNext]_vars

EntriesOfCalls == [i \in 1..Len(calls) |-> calls[i].entry]

AllCompleted == \A i \in 1..Len(calls) : ~calls[i].raised

NoIOFailure == \A i \in 1..Len(calls) : calls[i].rd = "ok" /\ calls[i].wr = "ok"

\* C9 as stated: from an absent log file, N sequential calls that each complete
\* leave a file that reads back as the array of their N entries in call order.
C9_CompletedCallsReadBack ==
    (logStart = AbsentLog /\ Len(calls) >= 1 /\ AllCompleted)
        => logFile = LogFile("array", EntriesOfCalls)

\* C9 amended: from an absent log file, N sequential calls that each complete
\* with their file read and file write succeeding leave a file that reads back
\* as the array of their N entries in call order.
C9_SuccessfulCallsReadBack ==
    (logStart = AbsentLog /\ Len(calls) >= 1 /\ AllCompleted /\ NoIOFailure)
        => logFile = LogFile("array", EntriesOfCalls)

C9_Witness ==
    /\ logStart = AbsentLog /\ Len(calls) >= 2 /\ AllCompleted /\ NoIOFailure
    /\ logFile.kind = "array" /\ Len(logFile.entries) = Len(calls)
    /\ logFile.entries[1] # logFile.entries[2]

\* C10: when the existing log file is corrupt or holds JSON that is no array,
\* save_response_local (bedrockChatbot.py, revised_bedrock.py) treats it as zero
\* prior entries and does not raise: after the call, whose file accesses all
\* work, the file holds the array of the one new entry.
C10_CorruptLogTreatedAsEmpty ==
    \A i \in 1..Len(calls) :
        (/\ i = Len(calls)
         /\ variant \in {"bedrock", "revised"}
         /\ calls[i].before \in {"corrupt", "nonarray"}
         /\ calls[i].rd = "ok" /\ calls[i].wr = "ok")
            => /\ ~calls[i].raised
               /\ logFile = LogFile("array", << calls[i].entry >>)

\* C11: no log entry is ever changed or removed after it was written: an entry
\* the file holds is still there, unchanged and at the same position, after any
\* further save_response_local call (revised_bedrock.py), whether or not that
\* call's read or write works.
C11_EntriesNeverLost ==
    [][(variant = "revised" /\ logFile.kind = "array")
          => /\ logFile'.kind = "array"
             /\ Len(logFile'.entries) >= Len(logFile.entries)
             /\ \A i \in 1..Len(logFile.entries) :
                    logFile'.entries[i] = logFile.entries[i]]_vars

(***************************************************************************)
(* SpecRace: two sessions call save_response_local on the same file at the *)
(* same time.  Nothing in the function takes a lock, so the steps of the   *)
(* two calls interleave freely: the read of the existing file, the         *)
(* open(filename, "w") that truncates it, and the json.dump that fills it. *)
(***************************************************************************)
\* The file between open(filename, "w") and json.dump: empty, hence no JSON.
Truncated == LogFile("corrupt", << >>)

RaceEntry(w) == MakeEntry(Txt(TurnTexts[w]), Success(Txt("reply"), Elapsed, "empty"))

RInit ==
    /\ variant \in Variants
    /\ current_mode = DefaultMode
    /\ messages = << >>
    /\ request = NoRequest
    /\ qpc = "idle"
    /\ max_retries = 0
    /\ base_backoff = 0
    /\ attempt = 0
    /\ last_exception = NoException
    /\ invocations = 0
    /\ sleeps = << >>
    /\ outcomes = << >>
    /\ result = NoResult
    /\ user_input = NoInput
    /\ logFile \in PreexistingLogs
    /\ logStart = logFile
    /\ calls = << >>
    /\ history = NoHistory
    /\ writers = [w \in Writers |-> WriterState("idle", << >>, RaceEntry(w), FALSE)]
    /\ lookups = << >>
    /\ parsing = NoParse

\* How a call goes on after a failed write: revised_bedrock.py logs and returns.
AfterWriteFailure(v) == IF v = "revised" THEN "done" ELSE "raised"

\* if os.path.exists(filename): logs = json.load(f) ...; logs.append(entry)
RaceRead(w) ==
    /\ writers[w].pc = "idle"
    /\ \E rd \in ReadOutcomesOf(logFile) :
         LET logs == ReadLogs(variant, logFile, rd)
         IN writers' = [writers EXCEPT ![w] =
                IF logs.raised \/ ~logs.islist
                THEN WriterState("raised", << >>, @.entry, TRUE)
                ELSE WriterState("read", AppendEntry(logs.entries, @.entry), @.entry,
                                 rd = "fail")]
    /\ UNCHANGED << sessVars, queryVars, logVars, history, lookups, parsing >>

\* open(filename, "w")
RaceOpen(w) ==
    /\ writers[w].pc = "read"
    /\ \/ /\ logFile' = Truncated
          /\ writers' = [writers EXCEPT ![w].pc = "opened"]
       \/ /\ logFile' = WriteLogs(logFile, writers[w].logs, "open_fails")
          /\ writers' = [writers EXCEPT ![w].pc = AfterWriteFailure(variant),
                                        ![w].failed = TRUE]
    /\ UNCHANGED << sessVars, queryVars, logStart, calls, history, lookups, parsing >>

\* json.dump(logs, f, indent=4)
RaceDump(w) ==
    /\ writers[w].pc = "opened"
    /\ \/ /\ logFile' = WriteLogs(logFile, writers[w].logs, "ok")
          /\ writers' = [writers EXCEPT ![w].pc = "done"]
       \/ /\ logFile' = WriteLogs(logFile, writers[w].logs, "dump_fails")
          /\ writers' = [writers EXCEPT ![w].pc = AfterWriteFailure(variant),
                                        ![w].failed = TRUE]
    /\ UNCHANGED << sessVars, queryVars, logStart, calls, history, lookups, parsing >>

RNext == \E w \in Writers : RaceRead(w) \/ RaceOpen(w) \/ RaceDump(w)

SpecRace == RInit /\ [][RNext]_vars

BothSucceeded == \A w \in Writers : writers[w].pc = "done" /\ ~writers[w].failed

\* C13: save_response_local takes no lock.  When two sessions call it at the
\* same time and both calls complete with every file access working, the file
\* holds exactly what one of the two calls dumped: that call's own entry last,
\* after what it had read; the other call's entry is in the file only if that
\* call had read it.  In particular there is an interleaving after which the
\* file holds only one of the two new entries.
C13_LastDumpWins ==
    BothSucceeded
        => \E w \in Writers :
             /\ logFile = LogFile("array", writers[w].logs)
             /\ Len(writers[w].logs) >= 1
             /\ writers[w].logs[Len(writers[w].logs)] = writers[w].entry

\* Both calls completed, each having read the one earlier entry, and the file
\* holds that entry and only one of the two new ones.
C13_Witness ==
    /\ BothSucceeded
    /\ logStart = LogFile("array", << OldEntry >>)
    /\ \A w \in Writers : writers[w].logs = << OldEntry, writers[w].entry >>
    /\ logFile.kind = "array"
    /\ Len(logFile.entries) = 2
    /\ \E w \in Writers :
         \A i \in 1..Len(logFile.entries) : logFile.entries[i] # writers[w].entry

(***************************************************************************)
(* SpecMode: advanceChatBot.choose_mode.  What the user types is a mode     *)
(* name or some other word (key), possibly with surrounding whitespace     *)
(* (pad) and possibly in upper case (upper).  The keys of the modes dict   *)
(* are lower-case words without surrounding whitespace.                    *)
(***************************************************************************)
Name(k, p, u) == [key |-> k, pad |-> p, upper |-> u]

\* The keys of the modes dict, as strings.
ModeKeys == { Name(m, FALSE, FALSE) : m \in modes }

\* What the user may type at the "Enter mode: " prompt.
EnteredNames == { Name(k, p, u) : k \in modes \cup {"poet", ""}, p \in BOOLEAN, u \in BOOLEAN }

\* str.strip()
StripName(n) == [n EXCEPT !.pad = FALSE]

\* str.lower(): the empty string has no letters to change.
LowerName(n) == [n EXCEPT !.upper = FALSE]

\* A choose_mode that returns what was typed, normalised, without the fallback.
choose_mode_NoFallback(n) == LowerName(StripName(n))

\* mode = input(...).strip().lower(); return mode if mode in modes else "marvel predictor"
choose_mode(n) ==
    LET mode == LowerName(StripName(n))
    IN IF mode \in ModeKeys THEN mode ELSE Name(DefaultMode, FALSE, FALSE)

MInit ==
    /\ variant = "advance"
    /\ current_mode = DefaultMode
    /\ messages = << >>
    /\ request = NoRequest
    /\ qpc = "idle"
    /\ max_retries = 0
    /\ base_backoff = 0
    /\ attempt = 0
    /\ last_exception = NoException
    /\ invocations = 0
    /\ sleeps = << >>
    /\ outcomes = << >>
    /\ result = NoResult
    /\ user_input = NoInput
    /\ logFile = AbsentLog
    /\ logStart = AbsentLog
    /\ calls = << >>
    /\ history = NoHistory
    /\ writers = NoWriters
    /\ lookups = << >>
    /\ parsing = NoParse

\* One call of choose_mode and its trace in lookups.
ChooseMode ==
    /\ Len(lookups) < MaxLookups
    /\ \E n \in EnteredNames :
         lookups' = Append(lookups, [entered |-> n, returned |-> choose_mode(n)])
    /\ UNCHANGED << sessVars, queryVars, logVars, history, writers, parsing >>

MNext == ChooseMode

SpecMode == MInit /\ [][MNext]_vars

\* C14 as stated: for every entered name that is not in the registry choose_mode
\* returns the default mode, for every entered name that is in the registry it
\* returns that name, and what it returns is always a key of the registry.
C14_UnknownNameFallsBack ==
    \A i \in 1..Len(lookups) :
        /\ lookups[i].entered \notin ModeKeys
              => lookups[i].returned = Name("marvel predictor", FALSE, FALSE)
        /\ lookups[i].entered \in ModeKeys => lookups[i].returned = lookups[i].entered
        /\ lookups[i].returned \in ModeKeys

\* C14 amended: the entered name is looked up after its surrounding whitespace
\* is stripped and it is lower-cased; when that normalised name is not in the
\* registry choose_mode returns the default mode, when it is in the registry
\* choose_mode returns the normalised name; what it returns is always a key of
\* the registry.
C14_NormalisedNameLookup ==
    \A i \in 1..Len(lookups) :
        LET typed == lookups[i].entered
            known == typed.key \in modes
        IN /\ ~known => lookups[i].returned = Name("marvel predictor", FALSE, FALSE)
           /\ known => lookups[i].returned = Name(typed.key, FALSE, FALSE)
           /\ lookups[i].returned \in ModeKeys

C14_Witness ==
    /\ Len(lookups) = 2
    /\ lookups[1].entered = Name("translator", TRUE, TRUE)
    /\ lookups[1].returned = Name("translator", FALSE, FALSE)
    /\ lookups[2].entered = Name("poet", FALSE, FALSE)
    /\ lookups[2].returned = Name("marvel predictor", FALSE, FALSE)

(***************************************************************************)
(* SpecParse: one call of revised_bedrock.parse_bedrock_response on a      *)
(* response body of any of the shapes the parser tells apart.              *)
(***************************************************************************)
PaInit ==
    /\ variant = "revised"
    /\ current_mode = DefaultMode
    /\ messages = << >>
    /\ request = NoRequest
    /\ qpc = "idle"
    /\ max_retries = 0
    /\ base_backoff = 0
    /\ attempt = 0
    /\ last_exception = NoException
    /\ invocations = 0
    /\ sleeps = << >>
    /\ outcomes = << >>
    /\ result = NoResult
    /\ user_input = NoInput
    /\ logFile = AbsentLog
    /\ logStart = AbsentLog
    /\ calls = << >>
    /\ history = NoHistory
    /\ writers = NoWriters
    /\ lookups = << >>
    /\ parsing = NoParse

\* The remote endpoint answers with some body.
ReceiveBody ==
    /\ parsing.stage = "none"
    /\ \E b \in BedrockBodies : parsing' = ParseState("received", b, parsing.out)
    /\ UNCHANGED << sessVars, queryVars, logVars, history, writers, lookups >>

\* text, parsed_json = parse_bedrock_response(raw_body)
ParseBody ==
    /\ parsing.stage = "received"
    /\ parsing' = ParseState("parsed", parsing.body, parse_bedrock_response(parsing.body))
    /\ UNCHANGED << sessVars, queryVars, logVars, history, writers, lookups >>

PaNext == ReceiveBody \/ ParseBody

SpecParse == PaInit /\ [][PaNext]_vars

\* Two texts that differ at most in their surrounding whitespace.
SameTrimmed(a, b) == [a EXCEPT !.pad = FALSE] = [b EXCEPT !.pad = FALSE]

\* C15: parse_bedrock_response decodes in a fixed precedence, the first match
\* winning: a body that is no JSON yields the raw text and an empty mapping;
\* otherwise a top-level outputText field yields its value, also when the nested
\* output.message.content[0].text path is there too; otherwise the nested path
\* yields its value; otherwise the raw decoded text is returned; in the three
\* JSON cases the second component is the full parsed body.  (A text is taken
\* to be yielded when the returned text equals it up to surrounding whitespace.)
C15_DecodingPrecedence ==
    parsing.stage = "parsed"
        => LET b == parsing.body
               out == parsing.out
               raw == IF b.pad THEN Padded("raw") ELSE Txt("raw")
               top == IF b.pad THEN Padded("hello") ELSE Txt("hello")
               nested == IF b.nt = "nonstr" THEN Txt("5")
                         ELSE IF b.pad THEN Padded("hi there") ELSE Txt("hi there")
           IN /\ out.kind = "return"
              /\ IF ~b.json
                 THEN SameTrimmed(out.text, raw) /\ out.parsed = EmptyDict
                 ELSE /\ out.parsed = b
                      /\ IF b.ot # "absent" THEN SameTrimmed(out.text, top)
                         ELSE IF b.nt \in {"str", "nonstr"} THEN SameTrimmed(out.text, nested)
                         ELSE SameTrimmed(out.text, raw)

\* C16: for every response body parse_bedrock_response returns a (text, parsed)
\* pair and never raises.
C16_ParserNeverRaises ==
    parsing.stage = "parsed" => parsing.out.kind = "return"

(***************************************************************************)
(* The Streamlit session script.  Every user interaction re-runs the       *)
(* script; a run that reaches the query waits for the remote endpoint.     *)
(***************************************************************************)
Unset == "<unset>"

\* The system turn's content on a mode change: revised_bedrock.py formats the
\* template with the slider's value, the other two scripts store the template.
SysContent(v, m, mt) == IF v = "revised" THEN Format(Template(m), mt) ELSE Template(m)

SystemTurn(c) == Turn("system", c)

\* A user turn stored under the system role.
UserTurn_AsSystem(c) == Turn("system", c)

\* {"role": "user", "content": user_input}
UserTurn(c) == Turn("user", c)

\* A reply stored under the user role.
AssistantTurn_AsUser(c) == Turn("user", c)

\* {"role": "assistant", "content": reply}
AssistantTurn(c) == Turn("assistant", c)

\* What the user types; "exit" is a command in advanceChatBot.py only.
UserInputs(v) == IF v = "advance" THEN {"hi", "exit"} ELSE {"hi"}

SessionBedrockOutcomes ==
    { Exc("timeout"), Resp(200, Body(TRUE, TRUE, "absent", "str", "present", TRUE)) }

SessionHFOutcomes ==
    { Exc("timeout"),
      Resp(500, HFBody(TRUE, TRUE, "absent", "absent")),
      Resp(200, HFBody(TRUE, TRUE, "str", "present")),
      Resp(200, HFBody(TRUE, TRUE, "empty", "absent")) }

\* The locals of a query are gone once the script run is over.
ResetQuery ==
    /\ request' = NoRequest
    /\ qpc' = "idle"
    /\ max_retries' = 0
    /\ base_backoff' = 0
    /\ attempt' = 0
    /\ last_exception' = NoException
    /\ invocations' = 0
    /\ sleeps' = << >>
    /\ outcomes' = << >>
    /\ result' = NoResult

SInit ==
    /\ variant \in Variants
    /\ current_mode = Unset
    /\ messages = << >>
    /\ request = NoRequest
    /\ qpc = "idle"
    /\ max_retries = 0
    /\ base_backoff = 0
    /\ attempt = 0
    /\ last_exception = NoException
    /\ invocations = 0
    /\ sleeps = << >>
    /\ outcomes = << >>
    /\ result = NoResult
    /\ user_input = NoInput
    /\ logFile = AbsentLog
    /\ logStart = AbsentLog
    /\ calls = << >>
    /\ history = NoHistory
    /\ writers = NoWriters
    /\ lookups = << >>
    /\ parsing = NoParse

\* The first run of the script: the session is initialised with the default
\* mode; in bedrockChatbot.py and revised_bedrock.py the mode selectbox then
\* shows its first option, which differs from the default, so the same run
\* goes through the mode change.
FirstRun ==
    /\ current_mode = Unset
    /\ IF variant = "advance"
       THEN /\ current_mode' = DefaultMode
            /\ messages' = << SystemTurn(Template(DefaultMode)) >>
       ELSE /\ current_mode' = FirstMode
            /\ messages' = << SystemTurn(SysContent(variant, FirstMode, SliderDefault)) >>
    /\ UNCHANGED << variant, user_input, queryVars, logVars, history, otherVars >>

\* The user selects another mode: the history is reset to the new system turn.
ModeChange ==
    /\ current_mode # Unset
    /\ qpc = "idle"
    /\ \E m \in modes \ {current_mode}, mt \in TokenChoices :
         /\ current_mode' = m
         /\ messages' = << SystemTurn(SysContent(variant, m, mt)) >>
    /\ UNCHANGED << variant, user_input, queryVars, logVars, history, otherVars >>

\* The user sends a prompt: it is appended, and either the chat is cleared
\* (advanceChatBot.py, "exit") or the query is started on the whole history.
Submit ==
    /\ current_mode # Unset
    /\ qpc = "idle"
    /\ Len(messages) < MaxTurns
    /\ Len(calls) < MaxSaves
    /\ \E p \in UserInputs(variant), mt \in TokenChoices :
         LET ms == Append(messages, UserTurn(Txt(p)))
         IN IF variant = "advance" /\ p = "exit"
            THEN /\ messages' = << SystemTurn(Template(current_mode)) >>
                 /\ UNCHANGED << user_input, queryVars >>
            ELSE /\ messages' = ms
                 /\ user_input' = Txt(p)
                 /\ StartQuery(ms, mt, DefaultMaxRetries, DefaultBaseBackoff)
    /\ UNCHANGED << variant, current_mode, logVars, history, otherVars >>

\* The query has returned: an error is shown; a reply is appended to the
\* history and the exchange is saved to the log.
Finish ==
    /\ qpc = "returned"
    /\ IF "error" \in DOMAIN result
       THEN UNCHANGED << messages, logVars >>
       ELSE /\ messages' = Append(messages, AssistantTurn(result.response))
            /\ \E rd \in ReadOutcomesOf(logFile), wr \in WriteOutcomes :
                 SaveStep(MakeEntry(user_input, result), rd, wr)
    /\ user_input' = NoInput
    /\ ResetQuery
    /\ UNCHANGED << variant, current_mode, history, otherVars >>

\* The query raised: the script run ends with the exception.
Crash ==
    /\ qpc = "raised"
    /\ user_input' = NoInput
    /\ ResetQuery
    /\ UNCHANGED << variant, current_mode, messages, logVars, history, otherVars >>

SNext ==
    \/ FirstRun
    \/ ModeChange
    \/ Submit
    \/ Attempt(SessionBedrockOutcomes, {1})
    \/ InvokeOnce(SessionBedrockOutcomes)
    \/ Post(SessionHFOutcomes)
    \/ Finish
    \/ Crash

Spec == SInit /\ [][SNext]_vars

\* C7: the message list of the request dispatched to the remote endpoint never
\* holds more than MAX_HISTORY_MESSAGES conversation turns.
C7_RequestWithinWindow ==
    qpc = "loop" => Len(request.messages) <= MAX_HISTORY_MESSAGES

\* C8: once the session is initialised, its turn sequence has exactly one system
\* turn, which is its first element; every other element is a user or an
\* assistant turn.
C8_OneLeadingSystemTurn ==
    current_mode # Unset
        => /\ Len(messages) >= 1
           /\ messages[1].role = "system"
           /\ \A i \in 2..Len(messages) : messages[i].role \in {"user", "assistant"}

C8_Witness ==
    /\ current_mode \notin {Unset, DefaultMode, FirstMode}
    /\ Len(messages) >= 4
    /\ messages[1].role = "system"
    /\ \E i \in 2..Len(messages) : messages[i].role = "assistant"
    /\ \E i \in 2..Len(messages) : messages[i].role = "user"

\* C12: in revised_bedrock.py a failure of the log write is not propagated: the
\* save_response_local call returns normally, and the assistant reply of that
\* interaction is appended to the session history.
C12_WriteFailureNotPropagated ==
    [][(/\ variant = "revised"
        /\ Len(calls') = Len(calls) + 1
        /\ calls'[Len(calls')].wr # "ok")
          => /\ ~calls'[Len(calls')].raised
             /\ Len(messages') = Len(messages) + 1
             /\ \A i \in 1..Len(messages) : messages'[i] = messages[i]
             /\ messages'[Len(messages')].role = "assistant"
             /\ messages'[Len(messages')].content = calls'[Len(calls')].entry.assistant]_vars

C12_Witness ==
    /\ variant = "revised"
    /\ qpc = "idle"
    /\ Len(calls) >= 1
    /\ calls[Len(calls)].wr = "dump_fails"
    /\ ~calls[Len(calls)].raised
    /\ logFile.kind = "corrupt"
    /\ Len(messages) >= 3
    /\ messages[Len(messages)] =
           [role |-> "assistant", content |-> calls[Len(calls)].entry.assistant]

\* C17: for the provider without a native system role (bedrockChatbot.py,
\* revised_bedrock.py) the request's message list has the length and order of
\* the turn sequence; every system turn has become a user message whose text is
\* the turn's content after the prefix "System instruction: ", user and
\* assistant turns keep their role and content, and no message has the role
\* system.
C17_SystemTurnBecomesUserMessage ==
    (variant \in {"bedrock", "revised"} /\ qpc = "loop")
        => /\ Len(request.messages) = Len(messages)
           /\ \A i \in 1..Len(messages) :
                LET turn == messages[i]
                    sent == request.messages[i]
                IN /\ sent.content = turn.content
                   /\ sent.role # "system"
                   /\ turn.role = "system"
                         => sent.role = "user" /\ sent.prefix = "System instruction: "
                   /\ turn.role # "system"
                         => sent.role = turn.role /\ sent.prefix = ""

C17_Witness ==
    /\ variant \in {"bedrock", "revised"}
    /\ qpc = "loop"
    /\ Len(messages) >= 4
    /\ Len(request.messages) = Len(messages)
    /\ messages[1].role = "system"
    /\ request.messages[1].role = "user"
    /\ request.messages[1].prefix = "System instruction: "
    /\ \E i \in 2..Len(messages) :
         messages[i].role = "assistant" /\ request.messages[i].role = "assistant"

\* C18: whenever a request is dispatched with the token budget max_tokens, the
\* system instruction it carries (its first message) is the template of the
\* active mode with the {max_tokens} placeholder replaced by that same value,
\* after any sequence of mode changes and slider changes.
C18_InstructionCarriesBudget ==
    qpc = "loop"
        => /\ Len(request.messages) >= 1
           /\ request.messages[1].content =
                  [text |-> current_mode, pad |-> FALSE, hole |-> FALSE,
                   tokens |-> request.max_tokens, marker |-> FALSE]

\* The step appends one assistant turn to the session history.
GainsAssistantTurn ==
    /\ Len(messages') = Len(messages) + 1
    /\ \A i \in 1..Len(messages) : messages'[i] = messages[i]
    /\ messages'[Len(messages')].role = "assistant"

\* The step appends one entry to the log file (an absent file has no entries).
GainsLogEntry ==
    /\ logFile'.kind = "array"
    /\ Len(logFile'.entries) = Len(logFile.entries) + 1
    /\ \A i \in 1..Len(logFile.entries) : logFile'.entries[i] = logFile.entries[i]

\* The step is one call of save_response_local.
MakesSaveCall == Len(calls') = Len(calls) + 1

\* The query of the interaction has returned an error result.
ErrorReturned == qpc = "returned" /\ "error" \in DOMAIN result

\* C19 as stated: an interaction whose query returns an error result appends no
\* assistant turn and leaves the log file unchanged; a log entry and an
\* assistant turn are appended only, and always together, by an interaction
\* whose query returns a success result.
C19_ReplyAndLogEntryTogether ==
    [][/\ ErrorReturned => (messages' = messages /\ logFile' = logFile)
       /\ GainsAssistantTurn <=> GainsLogEntry
       /\ GainsAssistantTurn => (qpc = "returned" /\ "response" \in DOMAIN result)]_vars

\* C19 amended: an interaction whose query returns an error result appends no
\* assistant turn, makes no save_response_local call and leaves the log file
\* unchanged; an assistant turn is appended and save_response_local is called
\* only, and always together, by an interaction whose query returns a success
\* result, the turn and the entry both carrying the reply; the log file changes
\* in such a call only, and gains the entry whenever the call's read and write
\* work.
C19_ReplyAndSaveCallTogether ==
    [][/\ ErrorReturned => (messages' = messages /\ logFile' = logFile /\ calls' = calls)
       /\ GainsAssistantTurn <=> MakesSaveCall
       /\ GainsAssistantTurn
             => /\ qpc = "returned" /\ "response" \in DOMAIN result
                /\ messages'[Len(messages')].content = result.response
                /\ calls'[Len(calls')].entry.assistant = result.response
                /\ calls'[Len(calls')].entry.user = user_input
       /\ logFile' # logFile => MakesSaveCall
       /\ (/\ MakesSaveCall
           /\ calls'[Len(calls')].rd = "ok" /\ calls'[Len(calls')].wr = "ok"
           /\ ~calls'[Len(calls')].raised)
             => /\ GainsLogEntry
                /\ logFile'.entries[Len(logFile'.entries)] = calls'[Len(calls')].entry]_vars

\* A session in which one interaction ended with an error result (its user turn
\* is followed by the next user turn) and another with a reply that was saved.
C19_Witness ==
    /\ qpc = "idle"
    /\ Len(calls) = 1
    /\ calls[1].rd = "ok" /\ calls[1].wr = "ok" /\ ~calls[1].raised
    /\ logFile = LogFile("array", << calls[1].entry >>)
    /\ Len(messages) = 4
    /\ messages[2].role = "user"
    /\ messages[3].role = "user"
    /\ messages[4] = [role |-> "assistant", content |-> calls[1].entry.assistant]

====
